---------------------------- MODULE Spec2Model ----------------------------
(***************************************************************************)
(* Model of crush-npm: the package builder (scripts/build.sh) and the      *)
(* binary launcher (bin/crush.js).                                         *)
(*                                                                         *)
(* Spec          the builder: runs of build.sh over one disk               *)
(* LauncherSpec  the launcher: findBinary, spawn, exit and signal handlers *)
(***************************************************************************)
EXTENDS Integers, Sequences, FiniteSets, TLC

\* ------------------------------------------------------------------ bounds
\* Invocations of build.sh that one behaviour follows.
MaxRuns == 1
\* Signals the launcher receives from outside in one behaviour.
MaxSignals == 2
\* Largest exit status a child is given in the model (statuses 0..MaxCode).
MaxCode == 2
\* Invocations of the setup tool.
MaxSetups == 1

None == "none"

\* =========================================================================
\* Package builder (build.sh)
\* =========================================================================

\* The keys of PLATFORMS: the archive suffixes the loop iterates over.
archive_suffixes ==
    {"Linux_x86_64", "Linux_arm64", "Darwin_x86_64", "Darwin_arm64",
     "Windows_x86_64", "Windows_arm64"}

PLATFORMS ==
    [s \in archive_suffixes |->
        CASE s = "Linux_x86_64"   -> "linux-x64"
          [] s = "Linux_arm64"    -> "linux-arm64"
          [] s = "Darwin_x86_64"  -> "darwin-x64"
          [] s = "Darwin_arm64"   -> "darwin-arm64"
          [] s = "Windows_x86_64" -> "win32-x64"
          [] s = "Windows_arm64"  -> "win32-arm64"]

npm_platforms == {PLATFORMS[s] : s \in archive_suffixes}

OS_MAP ==
    [p \in npm_platforms |->
        CASE p \in {"linux-x64", "linux-arm64"}   -> "linux"
          [] p \in {"darwin-x64", "darwin-arm64"} -> "darwin"
          [] p \in {"win32-x64", "win32-arm64"}   -> "win32"]

CPU_MAP ==
    [p \in npm_platforms |->
        IF p \in {"linux-x64", "darwin-x64", "win32-x64"} THEN "x64" ELSE "arm64"]

\* The version arguments tried; "" is the absent argument (${1:-}).
VersionArgs == {"", "1.2.3", "0.43.0"}

\* archive_name: crush_${VERSION}_${archive_suffix}.zip or .tar.gz
archive_name(ver, suffix) ==
    [version |-> ver, suffix |-> suffix,
     ext |-> IF OS_MAP[PLATFORMS[suffix]] = "win32" THEN "zip" ELSE "tar.gz"]

binary_name(os) == IF os = "win32" THEN "crush.exe" ELSE "crush"

\* What a release archive holds, as far as the extraction can tell:
\*   nested1   <folder>/<binary>            (one path segment deep)
\*   root      <binary>                     (at the archive root)
\*   deep      <folder>/sub/<binary>        (two segments deep)
\*   nobinary  a readable archive with no file of the binary's name
\*   corrupt   not a readable archive
Layouts == {"nested1", "root", "deep", "nobinary", "corrupt"}

\* What a download can give: curl fails (the request refused, or the
\* transfer broken off), or an archive of some layout.
Remote == {"unreachable", "broken"} \cup Layouts

\* A package directory is the set of its entries, among "bin/" (the
\* directory itself with its bin/ subdirectory, made by mkdir -p),
\* "bin/crush", "bin/crush.exe", "bin/sub/crush", "other/" (an extracted
\* folder left behind), "package.json" and "README.md"; {} is no directory.

VARIABLES
    pc,               \* position of build.sh
    VERSION,          \* $VERSION of the running invocation
    todo,             \* archive suffixes the loop has not reached yet
    dist_archives,    \* archive files in ${DIST_DIR}: [name, content]
    packages,         \* ${DIST_DIR}/packages/<pkg_name>: its entries
    BUILT_PLATFORMS,  \* the summary string: the names it lists
    root_pkg,         \* ${ROOT_DIR}/package.json
    exit_status,      \* exit status of the last invocation: <<n>> (<<>>: running)
    runs,             \* invocations started
    fetch,            \* history: what the download gave, per suffix, this run
    cleaned,          \* history: the clean step of this run has happened
    root_before,      \* history: the root manifest when this run started
    on_disk           \* history: suffixes the loop has not reached yet whose
                      \* archive was in dist when this run started

builder_vars ==
    <<pc, VERSION, todo, dist_archives, packages, BUILT_PLATFORMS, root_pkg,
      exit_status, runs, fetch, cleaned, root_before, on_disk>>

\* The launcher's state (bin/crush.js).
VARIABLES
    platform,       \* process.platform
    baseDirs,       \* the candidate directories of this installation
    fs,             \* the files of each candidate bin directory
    fs0,            \* history: fs when the launcher started
    fsops,          \* history: the file operations findBinary made
    binaryPath,     \* what findBinary returned (NoPath: not called yet)
    lpc,            \* the launcher: start, waiting, exited, signaled
    launcher_exit,  \* its exit status: <<n>> (<<>>: not exited with a status)
    launcher_sig,   \* the signal that ended it (None: not ended by one)
    child,          \* the child: none, failed, running, dead, reaped
    child_exit,     \* the exit event's code (<<c>>, <<>> for null) and signal
    child_killed,   \* child.killed
    pending,        \* signals sent to the child it has not yet acted on
    received,       \* history: signals the launcher's listeners got
    delivered,      \* history: signals child.kill sent to the running child
    cause,          \* history: why the child ended
    listeners       \* signals the process has a listener registered for

launcher_vars ==
    <<platform, baseDirs, fs, fs0, fsops, binaryPath, lpc, launcher_exit,
      launcher_sig, child, child_exit, child_killed, pending, received,
      delivered, cause, listeners>>

\* The setup tool's state (bin/setup.js).
VARIABLES
    CONFIG_FILE,     \* the file crush.json of the configuration directory
    local_file,      \* ./crush.json of the current directory
    env_example,     \* whether .env.example was written
    spc,             \* position of the setup tool
    existingConfig,  \* the wizard's existingConfig
    selectedProvider, \* the key of the provider selected (None: none yet)
    config,          \* the configuration the wizard has built
    setup_exit,      \* exit status of the last invocation: <<n>>
    setups,          \* invocations started
    mode,            \* history: "wizard" or "quick", this invocation
    declined,        \* history: the overwrite question was answered no
    file_before,     \* history: CONFIG_FILE when this invocation started
    written          \* history: the files this invocation wrote

setup_vars ==
    <<CONFIG_FILE, local_file, env_example, spc, existingConfig, config,
      setup_exit, setups, mode, declined, file_before, written,
      selectedProvider>>

vars == <<builder_vars, launcher_vars, setup_vars>>


\* ---------------------------------------------------------- extraction
\* One extraction strategy gives the exit status of its command (ok) and the
\* entries it leaves in the package directory.

\* unzip -q -j "*/<binary>" -d bin/  |  tar -xzf --strip-components=1
\* --wildcards "*/<binary>" -C bin.  The wildcard matches across "/": unzip
\* junks the path (-j), tar strips one segment only.
strategy_nested(os, layout) ==
    IF os = "win32"
    THEN IF layout \in {"nested1", "deep"}
         THEN [ok |-> TRUE, files |-> {"bin/crush.exe"}]
         ELSE [ok |-> FALSE, files |-> {}]
    ELSE CASE layout = "nested1" -> [ok |-> TRUE, files |-> {"bin/crush"}]
           [] layout = "deep"    -> [ok |-> TRUE, files |-> {"bin/sub/crush"}]
           [] OTHER              -> [ok |-> FALSE, files |-> {}]

\* unzip -q -j "<binary>" -d bin/  |  tar -xzf -C bin "<binary>"
strategy_root(os, layout) ==
    IF layout = "root"
    THEN [ok |-> TRUE, files |-> {"bin/" \o binary_name(os)}]
    ELSE [ok |-> FALSE, files |-> {}]

\* The subshell: extract everything, find the binary by name and move it to
\* bin/, then remove temp/ (zip) or the top-level crush_* folders (tar).
strategy_search(os, layout) ==
    CASE layout = "corrupt"  -> [ok |-> FALSE, files |-> {}]
      [] layout = "nobinary" ->
            [ok |-> TRUE, files |-> IF os = "win32" THEN {} ELSE {"other/"}]
      [] OTHER -> [ok |-> TRUE, files |-> {"bin/" \o binary_name(os)}]

\* A || B || (C): the first strategy whose command succeeds ends the list;
\* the list's status is the last command's.
extract(os, layout) ==
    IF strategy_nested(os, layout).ok THEN strategy_nested(os, layout)
    ELSE IF strategy_root(os, layout).ok THEN strategy_root(os, layout)
    ELSE strategy_search(os, layout)

\* set -e: a failing command list that is no condition ends the script.
errexit(ok) == ~ok

\* [ ! -f "${pkg_dir}/bin/${binary_name}" ]
binary_missing(os, entries) == ("bin/" \o binary_name(os)) \notin entries

\* Exit status of the failing extraction command (tar: 2, unzip: 9).
extract_status(os) == IF os = "win32" THEN 9 ELSE 2

\* --------------------------------------------------------------- download
archive_exists(archives, name) == \E a \in archives : a.name = name

archive_content(archives, name) ==
    (CHOOSE a \in archives : a.name = name).content

\* curl -fsSL -o "$archive_path": the file the transfer leaves.  A transfer
\* that breaks off part-way leaves a partial file, a refused one leaves none.
curl(archives, name, r) ==
    CASE r = "unreachable" -> archives
      [] r = "broken"      -> archives \cup {[name |-> name, content |-> "partial"]}
      [] OTHER             -> archives \cup {[name |-> name, content |-> r]}

\* rm -f "$archive_path"
rm_f(archives, name) == {a \in archives : a.name # name}

\* Lines 78-86: what the download step leaves for archive `name` when the
\* remote gives r: whether the iteration goes on, the archives, the history.
download(archives, name, r) ==
    IF archive_exists(archives, name)
    THEN [ok |-> TRUE, archives |-> archives, got |-> "cached"]
    ELSE IF r \in {"unreachable", "broken"}
         THEN [ok |-> FALSE, archives |-> rm_f(curl(archives, name, r), name),
               got |-> "failed"]
         ELSE [ok |-> TRUE, archives |-> curl(archives, name, r), got |-> r]

\* ---------------------------------------------------------- root manifest
\* A rewrite that sets the version and forgets the dependency entries.
update_root_version_only(pkg, ver) ==
    [version |-> ver, optionalDependencies |-> pkg.optionalDependencies,
     text |-> "stringified"]

\* A rewrite whose loop runs before the version is assigned and copies
\* pkg.version: the entries get the version the manifest had.
update_root_deps_lag(pkg, ver) ==
    [version |-> ver,
     optionalDependencies |->
        [d \in DOMAIN pkg.optionalDependencies |-> pkg.version],
     text |-> "stringified"]

\* The node -e step: version and every optionalDependencies entry := ver,
\* and the file is written as JSON.stringify(pkg, null, 2) + '\n' lays it
\* out (text: "as_found" is any other layout of the same object).
update_root(pkg, ver) ==
    [version |-> ver,
     optionalDependencies |->
        [d \in DOMAIN pkg.optionalDependencies |-> ver],
     text |-> "stringified"]

\* Names of the optional dependencies a root manifest may list.
DepNames == {"dep-linux-x64", "dep-win32-x64"}

\* Root manifests the first run may find.
RootManifests ==
    {[version |-> "0.42.0", optionalDependencies |-> [d \in D |-> "0.42.0"],
      text |-> "as_found"] : D \in {{}, DepNames}}

\* What an earlier run of version 1.2.3 may have left in dist: nothing, or
\* an archive and the package built from it.
stale_archive ==
    [name |-> archive_name("1.2.3", "Linux_x86_64"), content |-> "nested1"]

stale_packages ==
    [p \in npm_platforms |->
        IF p = "linux-x64"
        THEN {"bin/", "bin/crush", "package.json", "README.md"} ELSE {}]

no_packages == [p \in npm_platforms |-> {}]
no_fetch == [s \in archive_suffixes |-> None]

BuilderInit ==
    /\ pc = "idle"
    /\ VERSION = ""
    /\ todo = {}
    /\ \/ dist_archives = {} /\ packages = no_packages
       \/ dist_archives = {stale_archive} /\ packages = stale_packages
    /\ BUILT_PLATFORMS = {}
    /\ root_pkg \in RootManifests
    /\ exit_status = <<>>
    /\ runs = 0
    /\ fetch = no_fetch
    /\ cleaned = FALSE
    /\ root_before = root_pkg
    /\ on_disk = {}

\* An invocation whose argument check stands after the clean step: without
\* a version it has emptied dist before it prints the usage.
Start_checks_after_clean(v) ==
    /\ pc \in {"idle", "done", "aborted", "usage"}
    /\ runs < MaxRuns
    /\ runs' = runs + 1
    /\ VERSION' = v
    /\ BUILT_PLATFORMS' = {}
    /\ fetch' = no_fetch
    /\ cleaned' = FALSE
    /\ root_before' = root_pkg
    /\ on_disk' = {}
    /\ todo' = {}
    /\ IF v = ""
       THEN /\ pc' = "usage" /\ exit_status' = <<1>>
            /\ dist_archives' = {} /\ packages' = no_packages
       ELSE /\ pc' = "clean" /\ exit_status' = <<>>
            /\ UNCHANGED <<dist_archives, packages>>
    /\ UNCHANGED root_pkg
    /\ UNCHANGED <<launcher_vars, setup_vars>>

\* Lines 9-21: a new invocation; without a version it prints the usage and
\* exits 1.
Start(v) ==
    /\ pc \in {"idle", "done", "aborted", "usage"}
    /\ runs < MaxRuns
    /\ runs' = runs + 1
    /\ VERSION' = v
    /\ BUILT_PLATFORMS' = {}
    /\ fetch' = no_fetch
    /\ cleaned' = FALSE
    /\ root_before' = root_pkg
    /\ on_disk' = {s \in archive_suffixes :
                      v # "" /\ archive_exists(dist_archives, archive_name(v, s))}
    /\ todo' = {}
    /\ IF v = ""
       THEN pc' = "usage" /\ exit_status' = <<1>>
       ELSE pc' = "clean" /\ exit_status' = <<>>
    /\ UNCHANGED <<dist_archives, packages, root_pkg>>
    /\ UNCHANGED <<launcher_vars, setup_vars>>

\* A clean step that only makes the directories and removes nothing.
Clean_mkdir_only ==
    /\ pc = "clean"
    /\ cleaned' = TRUE
    /\ todo' = archive_suffixes
    /\ pc' = "loop"
    /\ UNCHANGED <<dist_archives, packages, VERSION, BUILT_PLATFORMS, root_pkg,
                   exit_status, runs, fetch, root_before, on_disk>>
    /\ UNCHANGED <<launcher_vars, setup_vars>>

\* Lines 23-25: rm -rf dist; mkdir -p dist/packages.  Line 55 and the loop
\* header follow.
Clean ==
    /\ pc = "clean"
    /\ dist_archives' = {}
    /\ packages' = no_packages
    /\ cleaned' = TRUE
    /\ todo' = archive_suffixes
    /\ pc' = "loop"
    /\ UNCHANGED <<VERSION, BUILT_PLATFORMS, root_pkg, exit_status, runs, fetch,
                   root_before, on_disk>>
    /\ UNCHANGED <<launcher_vars, setup_vars>>

\* Lines 58-153: one iteration of the platform loop, for suffix s, the
\* remote giving r.  The order of the keys of an associative array is not
\* specified: any suffix not yet reached may come next.
Iterate(s, r) ==
    LET np   == PLATFORMS[s]
        os   == OS_MAP[np]
        name == archive_name(VERSION, s)
        dl   == download(dist_archives, name, r)
        ex   == extract(os, archive_content(dl.archives, name))
        dir  == {"bin/"} \cup ex.files
    IN
    /\ pc = "loop"
    /\ s \in todo
    /\ dist_archives' = dl.archives
    /\ fetch' = [fetch EXCEPT ![s] = dl.got]
    /\ on_disk' = on_disk \ {s}
    /\ IF ~dl.ok
       THEN \* download failed: skip the platform
            /\ todo' = todo \ {s}
            /\ UNCHANGED <<packages, BUILT_PLATFORMS, pc, exit_status>>
       ELSE IF errexit(ex.ok)
       THEN \* the extraction list failed: the script ends here
            /\ packages' = [packages EXCEPT ![np] = dir]
            /\ pc' = "aborted"
            /\ exit_status' = <<extract_status(os)>>
            /\ UNCHANGED <<todo, BUILT_PLATFORMS>>
       ELSE IF binary_missing(os, dir)
       THEN \* verification failed: rm -rf the package directory
            /\ packages' = [packages EXCEPT ![np] = {}]
            /\ todo' = todo \ {s}
            /\ UNCHANGED <<BUILT_PLATFORMS, pc, exit_status>>
       ELSE /\ packages' =
                [packages EXCEPT ![np] = dir \cup {"package.json", "README.md"}]
            /\ BUILT_PLATFORMS' = BUILT_PLATFORMS \cup {np}
            /\ todo' = todo \ {s}
            /\ UNCHANGED <<pc, exit_status>>
    /\ UNCHANGED <<VERSION, root_pkg, runs, cleaned, root_before>>
    /\ UNCHANGED <<launcher_vars, setup_vars>>

\* Lines 155-187: after the loop, the root manifest is rewritten and the
\* summary printed.
Rewrite ==
    /\ pc = "loop"
    /\ todo = {}
    /\ root_pkg' = update_root(root_pkg, VERSION)
    /\ pc' = "done"
    /\ exit_status' = <<0>>
    /\ UNCHANGED <<VERSION, todo, dist_archives, packages, BUILT_PLATFORMS,
                   runs, fetch, cleaned, root_before, on_disk>>
    /\ UNCHANGED <<launcher_vars, setup_vars>>

BuilderNext ==
    \/ \E v \in VersionArgs : Start(v)
    \/ Clean
    \/ \E s \in archive_suffixes, r \in Remote : Iterate(s, r)
    \/ Rewrite


\* =========================================================================
\* Binary launcher (bin/crush.js)
\* =========================================================================

\* process.platform as far as the launcher tells it apart: win32 or not
\* (darwin behaves as linux).
LauncherPlatforms == {"linux", "win32"}

\* The candidate directories, in the order of baseDirs.
ScopedDir == "scoped"
HoistedDir == "hoisted"
ResolvedDir == "resolved"
AllDirs == {ScopedDir, HoistedDir, ResolvedDir}

\* baseDirs after .filter(Boolean): require.resolve may throw, and then the
\* third candidate is null and dropped.
BaseDirLists ==
    {<<ScopedDir, HoistedDir>>, <<ScopedDir, HoistedDir, ResolvedDir>>}

\* A bin directory: the mode of its proper-named file and of crush.bin
\* (None: no such file).
BinDirs ==
    [final : {None, "0755"}, disguised : {None, "0644"}]

\* The signals main registers a listener for.
ForwardedSignals == {"SIGINT", "SIGTERM", "SIGHUP"}

\* Signals that may end the child without the launcher sending them.
OutsideSignals == ForwardedSignals \cup {"SIGKILL"}


\* Paths: a file of a candidate directory; null (findBinary found nothing);
\* NoPath (nothing returned yet).
NullPath == [dir |-> "null", file |-> "null"]
NoPath == [dir |-> None, file |-> None]
finalPath(d) == [dir |-> d, file |-> "final"]
disguisedPath(d) == [dir |-> d, file |-> "disguised"]

\* What the file system refuses in a directory during one findBinary call.
Faults == [rename : BOOLEAN, chmod : BOOLEAN]

\* fs.renameSync(disguisedPath, finalPath) in directory d.
renameSync(files, d) ==
    [files EXCEPT ![d] = [final |-> files[d].disguised, disguised |-> None]]

\* fs.chmodSync(path, 0o755)
chmodSync(files, path) ==
    [files EXCEPT ![path.dir] =
        IF path.file = "final"
        THEN [@ EXCEPT !.final = "0755"]
        ELSE [@ EXCEPT !.disguised = "0755"]]

\* A loop body that looks for crush.bin first and renames it over whatever
\* is there.
probe_disguised_first(plat, files, d, fault) ==
    IF files[d].disguised # None
    THEN [path |-> finalPath(d), fs |-> renameSync(files, d),
          ops |-> {<<"rename", d, "ok">>}]
    ELSE IF files[d].final # None
    THEN [path |-> finalPath(d), fs |-> files, ops |-> {}]
    ELSE [path |-> NoPath, fs |-> files, ops |-> {}]

\* Lines 306-337, one pass of the loop body for directory d: the path it
\* returns (NoPath: the loop goes on), the files and the operations made.
probe(plat, files, d, fault) ==
    IF files[d].final # None
    THEN [path |-> finalPath(d), fs |-> files, ops |-> {}]
    ELSE IF files[d].disguised = None
    THEN [path |-> NoPath, fs |-> files, ops |-> {}]
    ELSE IF ~fault.rename
    THEN \* the rename succeeded
         IF plat = "win32"
         THEN [path |-> finalPath(d), fs |-> renameSync(files, d),
               ops |-> {<<"rename", d, "ok">>}]
         ELSE IF ~fault.chmod
         THEN [path |-> finalPath(d),
               fs |-> chmodSync(renameSync(files, d), finalPath(d)),
               ops |-> {<<"rename", d, "ok">>, <<"chmod", d, "final", "ok">>}]
         ELSE \* chmodSync(finalPath) threw: the catch block's chmodSync of
              \* the disguised path throws too (the file is gone)
              [path |-> NoPath, fs |-> renameSync(files, d),
               ops |-> {<<"rename", d, "ok">>, <<"chmod", d, "final", "failed">>,
                        <<"chmod", d, "disguised", "failed">>}]
    ELSE \* the rename threw
         IF plat = "win32"
         THEN [path |-> NoPath, fs |-> files, ops |-> {<<"rename", d, "failed">>}]
         ELSE IF ~fault.chmod
         THEN [path |-> disguisedPath(d),
               fs |-> chmodSync(files, disguisedPath(d)),
               ops |-> {<<"rename", d, "failed">>,
                        <<"chmod", d, "disguised", "ok">>}]
         ELSE [path |-> NoPath, fs |-> files,
               ops |-> {<<"rename", d, "failed">>,
                        <<"chmod", d, "disguised", "failed">>}]

\* Lines 280-340: the loop over baseDirs from index i on; null when no
\* directory gives a path.
RECURSIVE findBinaryFrom(_, _, _, _, _, _)
findBinaryFrom(plat, dirs, files, faults, ops, i) ==
    IF i > Len(dirs)
    THEN [path |-> NullPath, fs |-> files, ops |-> ops]
    ELSE LET r == probe(plat, files, dirs[i], faults[dirs[i]])
         IN  IF r.path # NoPath
             THEN [path |-> r.path, fs |-> r.fs, ops |-> ops \cup r.ops]
             ELSE findBinaryFrom(plat, dirs, r.fs, faults, ops \cup r.ops, i + 1)

findBinary(plat, dirs, files, faults) ==
    findBinaryFrom(plat, dirs, files, faults, {}, 1)

\* process.exit(code || 1): a status of 0 is replaced too.
exit_code_or_one(code) == IF code = <<>> \/ code = <<0>> THEN 1 ELSE code[1]

\* process.exit(code ?? 1)
exit_code(code) == IF code = <<>> THEN 1 ELSE code[1]

\* child.killed as the listener reads it, and the listener's guard.
may_forward(killed) == ~killed

\* Whether the process has a listener for signal s (lines 418-424).
has_listener(s) == s \in ForwardedSignals

LauncherInit ==
    /\ platform \in LauncherPlatforms
    /\ baseDirs \in BaseDirLists
    /\ fs \in [AllDirs -> BinDirs]
    /\ \A d \in AllDirs :
          (\A i \in 1..Len(baseDirs) : baseDirs[i] # d) =>
              fs[d] = [final |-> None, disguised |-> None]
    /\ fs0 = fs
    /\ fsops = {}
    /\ binaryPath = NoPath
    /\ lpc = "start"
    /\ launcher_exit = <<>>
    /\ launcher_sig = None
    /\ child = "none"
    /\ child_exit = [code |-> <<>>, signal |-> None]
    /\ child_killed = FALSE
    /\ pending = {}
    /\ received = <<>>
    /\ delivered = <<>>
    /\ cause = None
    /\ listeners = {}

launcher_fs_vars == <<platform, baseDirs, fs, fs0, fsops, binaryPath>>


\* The mode of the file a path names.
mode_of(files, path) ==
    IF path.file = "final" THEN files[path.dir].final
    ELSE files[path.dir].disguised

\* Whether spawn can start the file: a file without the executable bit
\* cannot be started on a non-Windows platform.
spawnable(plat, files, path) == plat = "win32" \/ mode_of(files, path) = "0755"

\* A main without the not-found check: it spawns whatever findBinary gave
\* and registers its listeners.
Main_spawns_unchecked(faults, spawn_ok) ==
    LET r == findBinary(platform, baseDirs, fs, faults) IN
    /\ lpc = "start"
    /\ fs' = r.fs
    /\ fsops' = r.ops
    /\ binaryPath' = r.path
    /\ lpc' = "waiting"
    /\ launcher_exit' = <<>>
    /\ child' = IF r.path # NullPath /\ spawn_ok
                    /\ spawnable(platform, r.fs, r.path)
                THEN "running" ELSE "failed"
    /\ listeners' = ForwardedSignals
    /\ UNCHANGED <<platform, baseDirs, fs0, launcher_sig, child_exit,
                   child_killed, pending, received, delivered, cause>>
    /\ UNCHANGED <<builder_vars, setup_vars>>

\* Lines 386-425: main.  findBinary; not found: the diagnostic and exit(1);
\* otherwise spawn, and the error, exit and signal listeners are registered
\* before any event is handled.  The spawn may fail (the error event comes
\* later); it does when the file cannot be executed.
Main(faults, spawn_ok) ==
    LET r == findBinary(platform, baseDirs, fs, faults) IN
    /\ lpc = "start"
    /\ fs' = r.fs
    /\ fsops' = r.ops
    /\ binaryPath' = r.path
    /\ IF r.path = NullPath
       THEN /\ lpc' = "exited"
            /\ launcher_exit' = <<1>>
            /\ child' = "none"
            /\ listeners' = {}
       ELSE /\ lpc' = "waiting"
            /\ launcher_exit' = <<>>
            /\ child' = IF spawn_ok /\ spawnable(platform, r.fs, r.path)
                        THEN "running" ELSE "failed"
            /\ listeners' = ForwardedSignals
    /\ UNCHANGED <<platform, baseDirs, fs0, launcher_sig, child_exit,
                   child_killed, pending, received, delivered, cause>>
    /\ UNCHANGED <<builder_vars, setup_vars>>

\* Lines 403-406: child.on('error'): the message and exit(1).
OnError ==
    /\ lpc = "waiting"
    /\ child = "failed"
    /\ lpc' = "exited"
    /\ launcher_exit' = <<1>>
    /\ UNCHANGED <<launcher_fs_vars, listeners,
                   launcher_sig, child, child_exit,
                   child_killed, pending, received, delivered, cause>>
    /\ UNCHANGED <<builder_vars, setup_vars>>

\* The child ends by itself with status c.
ChildExits(c) ==
    /\ child = "running"
    /\ child' = "dead"
    /\ child_exit' = [code |-> <<c>>, signal |-> None]
    /\ cause' = "exit"
    /\ UNCHANGED <<launcher_fs_vars, listeners,
                   lpc, launcher_exit, launcher_sig,
                   child_killed, pending, received, delivered>>
    /\ UNCHANGED <<builder_vars, setup_vars>>

\* The child is ended by a signal the launcher forwarded to it.
ChildDiesOfForwarded(s) ==
    /\ child = "running"
    /\ s \in pending
    /\ child' = "dead"
    /\ child_exit' = [code |-> <<>>, signal |-> s]
    /\ cause' = "forwarded"
    /\ UNCHANGED <<launcher_fs_vars, listeners,
                   lpc, launcher_exit, launcher_sig,
                   child_killed, pending, received, delivered>>
    /\ UNCHANGED <<builder_vars, setup_vars>>

\* The child catches or ignores a forwarded signal and runs on.
ChildHandles(s) ==
    /\ child = "running"
    /\ s \in pending
    /\ pending' = pending \ {s}
    /\ UNCHANGED <<launcher_fs_vars, listeners,
                   lpc, launcher_exit, launcher_sig, child,
                   child_exit, child_killed, received, delivered, cause>>
    /\ UNCHANGED <<builder_vars, setup_vars>>

\* The child is ended by a signal that did not come from the launcher.
ChildKilledOutside(s) ==
    /\ child = "running"
    /\ platform # "win32"
    /\ child' = "dead"
    /\ child_exit' = [code |-> <<>>, signal |-> s]
    /\ cause' = "outside"
    /\ UNCHANGED <<launcher_fs_vars, listeners,
                   lpc, launcher_exit, launcher_sig,
                   child_killed, pending, received, delivered>>
    /\ UNCHANGED <<builder_vars, setup_vars>>

\* Lines 408-415: child.on('exit').  With a signal, process.kill(process.pid,
\* signal): a signal the process listens for runs its listener (which finds
\* no child to signal) instead of ending the process, and the launcher, left
\* with nothing to wait for, exits with status 0; any other signal ends it.
\* Without a signal, process.exit(code ?? 1).
OnExit ==
    /\ lpc = "waiting"
    /\ child = "dead"
    /\ child' = "reaped"
    /\ IF child_exit.signal # None
       THEN IF has_listener(child_exit.signal)
            THEN /\ lpc' = "exited"
                 /\ launcher_exit' = <<0>>
                 /\ UNCHANGED launcher_sig
            ELSE /\ lpc' = "signaled"
                 /\ launcher_sig' = child_exit.signal
                 /\ UNCHANGED launcher_exit
       ELSE /\ lpc' = "exited"
            /\ launcher_exit' = <<exit_code(child_exit.code)>>
            /\ UNCHANGED launcher_sig
    /\ UNCHANGED <<launcher_fs_vars, listeners,
                   child_exit, child_killed, pending,
                   received, delivered, cause>>
    /\ UNCHANGED <<builder_vars, setup_vars>>

\* A launcher without listeners: a signal it receives has its default
\* action and ends it, whatever the child does.
ReceiveSignal_default(s) ==
    /\ lpc = "waiting"
    /\ platform # "win32"
    /\ Len(received) < MaxSignals
    /\ received' = Append(received, [sig |-> s, running |-> child = "running"])
    /\ lpc' = "signaled"
    /\ launcher_sig' = s
    /\ UNCHANGED <<launcher_fs_vars, listeners, launcher_exit, child,
                   child_exit, child_killed, pending, delivered, cause>>
    /\ UNCHANGED <<builder_vars, setup_vars>>

\* Lines 417-424: the launcher receives s and its listener runs:
\* if (!child.killed) child.kill(s).  kill sets child.killed once the signal
\* was sent, whether or not the child ends.  Signals are followed on POSIX
\* platforms only (Windows has none).
ReceiveSignal(s) ==
    /\ lpc = "waiting"
    /\ s \in listeners
    /\ platform # "win32"
    /\ Len(received) < MaxSignals
    /\ received' = Append(received, [sig |-> s, running |-> child = "running"])
    /\ IF may_forward(child_killed) /\ child \in {"running", "dead"}
       THEN /\ child_killed' = TRUE
            /\ IF child = "running"
               THEN /\ pending' = pending \cup {s}
                    /\ delivered' = Append(delivered, s)
               ELSE UNCHANGED <<pending, delivered>>
       ELSE UNCHANGED <<child_killed, pending, delivered>>
    /\ UNCHANGED <<launcher_fs_vars, listeners,
                   lpc, launcher_exit, launcher_sig, child,
                   child_exit, cause>>
    /\ UNCHANGED <<builder_vars, setup_vars>>

LauncherNext ==
    \/ \E f \in [AllDirs -> Faults], ok \in BOOLEAN : Main(f, ok)
    \/ OnError
    \/ \E c \in 0..MaxCode : ChildExits(c)
    \/ \E s \in ForwardedSignals : ChildDiesOfForwarded(s)
    \/ \E s \in ForwardedSignals : ChildHandles(s)
    \/ \E s \in OutsideSignals : ChildKilledOutside(s)
    \/ OnExit
    \/ \E s \in ForwardedSignals : ReceiveSignal(s)

\* ============================================================== setup
\* bin/setup.js: the interactive wizard and the quick setup.  A
\* configuration object is a record of its options (a function from option
\* names to their values), the options.disabled_tools list (<<>>: no such
\* key, <<S>>: the list of the tools of S) and its providers (a function
\* from provider keys to entries: "existing" is an entry found in the file,
\* "configured" one made by a template).

\* Object spread {...a, ...b}: the keys of both, b's value where both have one.
spread(a, b) ==
    [k \in DOMAIN a \cup DOMAIN b |-> IF k \in DOMAIN b THEN b[k] ELSE a[k]]

EmptyObj == [options |-> <<>>, disabled_tools |-> <<>>, providers |-> <<>>]

\* Lines 22-30.
OFFLINE_CONFIG ==
    [options |->
        [k \in {"disable_provider_auto_update", "disable_metrics",
                "disable_default_providers", "auto_lsp"} |-> TRUE],
     disabled_tools |-> <<>>,
     providers |-> <<>>]

\* Lines 33-122: the keys of PROVIDER_TEMPLATES.
PROVIDER_TEMPLATES == {"azure-openai", "azure-foundry", "openai-compat", "ollama"}

\* The options and providers a configuration file found on disk may hold.
ExistingOptions ==
    UNION {[S -> BOOLEAN] :
              S \in SUBSET {"disable_metrics", "disable_provider_auto_update"}}

ExistingProviders ==
    UNION {[S -> {"existing"}] : S \in SUBSET {"azure-foundry", "internal-llm"}}

\* A file: absent, not parsable as JSON, or a JSON object.
NoFile == [kind |-> "absent", obj |-> EmptyObj]
GarbageFile == [kind |-> "garbage", obj |-> EmptyObj]
json_file(obj) == [kind |-> "json", obj |-> obj]

ConfigFiles ==
    {NoFile, GarbageFile} \cup
    {json_file([options |-> o, disabled_tools |-> <<>>, providers |-> p]) :
        o \in ExistingOptions, p \in ExistingProviders}

\* Lines 173-183: existingConfig after the overwrite question.  The file is
\* read only when it exists and overwriting was declined; a file that does
\* not parse leaves {}.
read_existing(file, overwrite) ==
    IF file.kind = "json" /\ ~overwrite THEN file.obj ELSE EmptyObj

\* A build whose providers spread the existing entries last: an existing
\* entry under the selected key is kept instead of replaced.
build_config_existing_wins(existing, key) ==
    [options |-> spread(OFFLINE_CONFIG.options, existing.options),
     disabled_tools |-> existing.disabled_tools,
     providers |-> spread([k \in {key} |-> "configured"], existing.providers)]

\* Lines 219-230: { ...OFFLINE_CONFIG, ...existingConfig, options: {...},
\* providers: {...} } for the selected provider key.
build_config(existing, key) ==
    [options |-> spread(OFFLINE_CONFIG.options, existing.options),
     disabled_tools |-> existing.disabled_tools,
     providers |-> spread(existing.providers, [k \in {key} |-> "configured"])]

\* Lines 265-269: options.disabled_tools after the two questions.
disable_tools(cfg, disableFetch, disableSourcegraph) ==
    IF disableFetch \/ disableSourcegraph
    THEN [cfg EXCEPT !.disabled_tools =
            <<(IF disableFetch THEN {"fetch"} ELSE {}) \cup
              (IF disableSourcegraph THEN {"sourcegraph"} ELSE {})>>]
    ELSE cfg

\* Lines 356-361: { ...OFFLINE_CONFIG, providers: { [providerType]: ... } }.
quick_config(providerType) ==
    [options |-> OFFLINE_CONFIG.options,
     disabled_tools |-> <<>>,
     providers |-> [k \in {providerType} |-> "configured"]]

SetupInit ==
    /\ CONFIG_FILE \in ConfigFiles
    /\ local_file = NoFile
    /\ env_example = FALSE
    /\ spc = "start"
    /\ existingConfig = EmptyObj
    /\ config = EmptyObj
    /\ setup_exit = <<>>
    /\ setups = 0
    /\ mode = None
    /\ declined = FALSE
    /\ file_before = CONFIG_FILE
    /\ written = {}
    /\ selectedProvider = None

\* A new invocation of the setup tool may start.
may_start == spc \in {"start", "done", "exited"} /\ setups < MaxSetups

\* Lines 452-454 and 162-183: no command: the wizard starts; when the file
\* exists it asks whether to overwrite it (answer: overwrite).
RunWizard(overwrite) ==
    /\ may_start
    /\ setups' = setups + 1
    /\ mode' = "wizard"
    /\ file_before' = CONFIG_FILE
    /\ written' = {}
    /\ declined' = (CONFIG_FILE.kind # "absent" /\ ~overwrite)
    /\ existingConfig' = read_existing(CONFIG_FILE, overwrite)
    /\ selectedProvider' = None
    /\ config' = EmptyObj
    /\ setup_exit' = <<>>
    /\ spc' = "select"
    /\ UNCHANGED <<CONFIG_FILE, local_file, env_example>>
    /\ UNCHANGED <<builder_vars, launcher_vars>>

\* Lines 185-230: the provider is selected and its details asked; an
\* endpoint is required except for ollama, which has a default.  Then the
\* configuration is built.
SelectProvider(key, endpoint) ==
    /\ spc = "select"
    /\ selectedProvider' = key
    /\ IF key # "ollama" /\ endpoint = ""
       THEN /\ spc' = "exited"
            /\ setup_exit' = <<1>>
            /\ UNCHANGED config
       ELSE /\ spc' = "settings"
            /\ config' = build_config(existingConfig, key)
            /\ UNCHANGED setup_exit
    /\ UNCHANGED <<CONFIG_FILE, local_file, env_example, existingConfig,
                   setups, mode, declined, file_before, written>>
    /\ UNCHANGED <<builder_vars, launcher_vars>>

\* Lines 257-269: the two questions about tools.
OfflineSettings(disableFetch, disableSourcegraph) ==
    /\ spc = "settings"
    /\ config' = disable_tools(config, disableFetch, disableSourcegraph)
    /\ spc' = "save"
    /\ UNCHANGED <<CONFIG_FILE, local_file, env_example, existingConfig,
                   setup_exit, setups, mode, declined, file_before, written,
                   selectedProvider>>
    /\ UNCHANGED <<builder_vars, launcher_vars>>

\* Lines 271-294: the preview and the save questions; the local copy is
\* offered only when the configuration was saved.
SaveConfig(saveConfig, saveLocal) ==
    /\ spc = "save"
    /\ IF saveConfig
       THEN /\ CONFIG_FILE' = json_file(config)
            /\ IF saveLocal
               THEN local_file' = json_file(config)
                    /\ written' = {"CONFIG_FILE", "crush.json"}
               ELSE UNCHANGED local_file /\ written' = {"CONFIG_FILE"}
       ELSE UNCHANGED <<CONFIG_FILE, local_file, written>>
    /\ spc' = "env"
    /\ UNCHANGED <<env_example, existingConfig, config, setup_exit, setups,
                   mode, declined, file_before, selectedProvider>>
    /\ UNCHANGED <<builder_vars, launcher_vars>>

\* Lines 296-330: .env.example, and the wizard ends.
GenerateEnv(generateEnv) ==
    /\ spc = "env"
    /\ env_example' = (env_example \/ generateEnv)
    /\ spc' = "done"
    /\ setup_exit' = <<0>>
    /\ UNCHANGED <<CONFIG_FILE, local_file, existingConfig, config, setups,
                   mode, declined, file_before, written, selectedProvider>>
    /\ UNCHANGED <<builder_vars, launcher_vars>>

\* Lines 334-373 and 418-420: quick <provider-type> <endpoint>.  An absent
\* argument is ""; the provider type defaults to azure-foundry.
quickSetup(type_arg, endpoint) ==
    LET providerType == IF type_arg = "" THEN "azure-foundry" ELSE type_arg
    IN
    /\ may_start
    /\ setups' = setups + 1
    /\ mode' = "quick"
    /\ file_before' = CONFIG_FILE
    /\ declined' = FALSE
    /\ existingConfig' = EmptyObj
    /\ selectedProvider' = None
    /\ IF endpoint = "" \/ providerType \notin PROVIDER_TEMPLATES
       THEN /\ spc' = "exited"
            /\ setup_exit' = <<1>>
            /\ config' = EmptyObj
            /\ written' = {}
            /\ UNCHANGED CONFIG_FILE
       ELSE /\ spc' = "done"
            /\ setup_exit' = <<0>>
            /\ config' = quick_config(providerType)
            /\ CONFIG_FILE' = json_file(quick_config(providerType))
            /\ written' = {"CONFIG_FILE"}
    /\ UNCHANGED <<local_file, env_example>>
    /\ UNCHANGED <<builder_vars, launcher_vars>>

SetupNext ==
    \/ \E overwrite \in BOOLEAN : RunWizard(overwrite)
    \/ \E key \in PROVIDER_TEMPLATES, endpoint \in {"", "https://llm/"} :
          SelectProvider(key, endpoint)
    \/ \E f \in BOOLEAN, sg \in BOOLEAN : OfflineSettings(f, sg)
    \/ \E s \in BOOLEAN, l \in BOOLEAN : SaveConfig(s, l)
    \/ \E g \in BOOLEAN : GenerateEnv(g)
    \/ \E ty \in PROVIDER_TEMPLATES \cup {"", "bogus"},
          endpoint \in {"", "https://llm/"} : quickSetup(ty, endpoint)

\* ------------------------------------------------------- specifications
\* While one component is followed the others stay as they are.
BuilderIdle ==
    /\ pc = "idle" /\ VERSION = "" /\ todo = {} /\ dist_archives = {}
    /\ packages = no_packages /\ BUILT_PLATFORMS = {}
    /\ root_pkg = [version |-> "0.42.0", optionalDependencies |-> <<>>,
                   text |-> "as_found"]
    /\ exit_status = <<>> /\ runs = 0 /\ fetch = no_fetch /\ cleaned = FALSE
    /\ root_before = root_pkg /\ on_disk = {}

LauncherIdle ==
    /\ platform = "linux" /\ baseDirs = <<ScopedDir, HoistedDir>>
    /\ fs = [d \in AllDirs |-> [final |-> None, disguised |-> None]]
    /\ fs0 = fs /\ fsops = {} /\ binaryPath = NoPath /\ lpc = "start"
    /\ launcher_exit = <<>> /\ launcher_sig = None /\ child = "none"
    /\ child_exit = [code |-> <<>>, signal |-> None] /\ child_killed = FALSE
    /\ pending = {} /\ received = <<>> /\ delivered = <<>> /\ cause = None
    /\ listeners = {}

SetupIdle ==
    /\ CONFIG_FILE = NoFile /\ local_file = NoFile /\ env_example = FALSE
    /\ spc = "start" /\ existingConfig = EmptyObj /\ config = EmptyObj
    /\ setup_exit = <<>> /\ setups = 0 /\ mode = None /\ declined = FALSE
    /\ file_before = CONFIG_FILE /\ written = {}
    /\ selectedProvider = None

Init == BuilderInit /\ LauncherIdle /\ SetupIdle
Next == BuilderNext
Spec == Init /\ [][Next]_vars

LInit == LauncherInit /\ BuilderIdle /\ SetupIdle
LNext == LauncherNext
LauncherSpec == LInit /\ [][LNext]_vars

SInit == SetupInit /\ BuilderIdle /\ LauncherIdle
SNext == SetupNext
SetupSpec == SInit /\ [][SNext]_vars


\* =========================================================================
\* Properties of the builder (under Spec)
\* =========================================================================

\* The package directory of suffix s.
pkg_of(s) == packages[PLATFORMS[s]]

\* An archive of this layout holds the binary where the extraction of
\* platform s puts it at bin/<binary_name>.
yields_binary(s, layout) ==
    LET os == OS_MAP[PLATFORMS[s]]
    IN  ~binary_missing(os, {"bin/"} \cup extract(os, layout).files)

\* This run downloaded an archive for s, and the extraction did not give the
\* binary.
extraction_failed(s) == fetch[s] \in Layouts /\ ~yields_binary(s, fetch[s])

\* The invocation has ended (with whatever status).
script_ended == exit_status # <<>>

\* C1: when platform P's archive is there but no extraction strategy gives
\* the binary (the commands fail, or run without producing the file), the
\* build removes P's package directory, leaves P out of the summary, goes on
\* with the remaining platforms and still rewrites the root manifest.
C1_ExtractionFailureIsolated ==
    \A s \in archive_suffixes :
        extraction_failed(s) =>
            /\ pkg_of(s) = {}
            /\ PLATFORMS[s] \notin BUILT_PLATFORMS
            /\ pc # "aborted"
            /\ script_ended =>
                  /\ todo = {}
                  /\ root_pkg = update_root(root_before, VERSION)

\* C2: when the download of P's archive fails, no archive file of P is left,
\* no package directory of P is made, P is not in the summary, and every
\* other platform gets its turn and is built when its archive is reachable
\* and holds the binary.
C2_DownloadFailureIsolated ==
    \A s \in archive_suffixes :
        fetch[s] = "failed" =>
            /\ ~archive_exists(dist_archives, archive_name(VERSION, s))
            /\ pkg_of(s) = {}
            /\ PLATFORMS[s] \notin BUILT_PLATFORMS
            /\ script_ended =>
                  \A q \in archive_suffixes \ {s} :
                      /\ q \notin todo
                      /\ (fetch[q] \in Layouts /\ yields_binary(q, fetch[q]))
                            => PLATFORMS[q] \in BUILT_PLATFORMS

\* The files of a package directory's bin/.
bin_files(entries) ==
    entries \cap {"bin/crush", "bin/crush.exe", "bin/sub/crush"}

\* C9: at the end of a build run, a platform is in the summary exactly when
\* its package directory exists, and every package directory that exists
\* holds exactly one binary, of the platform's name, in bin/, and its
\* manifest; no package directory without a binary survives.
C9_PackagesMatchSummary ==
    (script_ended /\ pc \in {"done", "aborted"}) =>
        \A s \in archive_suffixes :
            /\ (PLATFORMS[s] \in BUILT_PLATFORMS) <=> (pkg_of(s) # {})
            /\ pkg_of(s) # {} =>
                  /\ bin_files(pkg_of(s)) =
                        {"bin/" \o binary_name(OS_MAP[PLATFORMS[s]])}
                  /\ "package.json" \in pkg_of(s)

\* C10: after a build of version v completes, the root manifest's version
\* is v, every optional-dependency entry is v, and the names of the optional
\* dependencies are those the manifest had before the run.
C10_RootManifestRewritten ==
    pc = "done" =>
        /\ root_pkg.version = VERSION
        /\ \A d \in DOMAIN root_pkg.optionalDependencies :
              root_pkg.optionalDependencies[d] = VERSION
        /\ DOMAIN root_pkg.optionalDependencies =
              DOMAIN root_before.optionalDependencies

\* A completed run of 1.2.3 over a manifest that lists dependencies.
C10_Witness ==
    /\ pc = "done"
    /\ VERSION = "1.2.3"
    /\ DOMAIN root_before.optionalDependencies = DepNames
    /\ root_before.version # VERSION
    /\ root_pkg.optionalDependencies = [d \in DepNames |-> "1.2.3"]

\* =========================================================================
\* Properties of the launcher (under LauncherSpec)
\* =========================================================================

\* C3: a signal the launcher receives while its child runs reaches the
\* child; and when the child then ends by that signal, the launcher itself
\* ends by the same signal, not by exiting with a status.
C3_SignalPropagation ==
    /\ (Len(received) >= 1 /\ received[1].running) =>
          (Len(delivered) >= 1 /\ delivered[1] = received[1].sig)
    /\ (child = "reaped" /\ cause = "forwarded") =>
          (lpc = "signaled" /\ launcher_sig = child_exit.signal)

\* The signals of the history h that arrived while the child was running.
RECURSIVE while_running(_)
while_running(h) ==
    IF h = <<>> THEN <<>>
    ELSE IF Head(h).running
         THEN <<Head(h).sig>> \o while_running(Tail(h))
         ELSE while_running(Tail(h))

\* C4: every SIGINT, SIGTERM or SIGHUP the launcher receives while its child
\* has not exited is forwarded to the child, a second or later one too.
C4_EverySignalForwarded == delivered = while_running(received)

\* C5: when the child exits normally with status c, the launcher exits with
\* status c (1 stands in only for a null code).
C5_ExitCodeMirrorsChild ==
    (child = "reaped" /\ child_exit.signal = None) =>
        (lpc = "exited" /\ launcher_exit = child_exit.code)

\* The child was sent a signal, exited with status 0 all the same, and the
\* launcher has exited with 0.
C5_Witness ==
    /\ child = "reaped"
    /\ child_exit.signal = None
    /\ child_exit.code = <<0>>
    /\ launcher_exit = <<0>>
    /\ Len(delivered) = 1

\* The index of directory d in baseDirs (0: not a candidate).
index_of(d) ==
    IF \E i \in 1..Len(baseDirs) : baseDirs[i] = d
    THEN CHOOSE i \in 1..Len(baseDirs) : baseDirs[i] = d
    ELSE 0

\* findBinary has returned.
resolved == binaryPath # NoPath

\* Candidate d was reached by the loop: no earlier candidate held a file
\* when the launcher started.
reached(d) ==
    /\ index_of(d) > 0
    /\ \A i \in 1..(index_of(d) - 1) :
          fs0[baseDirs[i]] = [final |-> None, disguised |-> None]

only_disguised(d) == fs0[d].final = None /\ fs0[d].disguised # None

\* C6: when a candidate directory holds only crush.bin, then after
\* findBinary: the proper-named file exists, is executable on non-Windows,
\* crush.bin is gone and the proper-named path is returned; except when the
\* rename failed: then crush.bin still exists and its path is returned.
C6_DisguisedIsRenamed ==
    \A d \in AllDirs :
        (resolved /\ reached(d) /\ only_disguised(d)) =>
            IF <<"rename", d, "failed">> \in fsops
            THEN /\ fs[d].disguised # None
                 /\ binaryPath = disguisedPath(d)
            ELSE /\ fs[d].final # None
                 /\ (platform # "win32" => fs[d].final = "0755")
                 /\ fs[d].disguised = None
                 /\ binaryPath = finalPath(d)

\* C7: when the rename of crush.bin fails in a candidate directory,
\* findBinary returns the path of crush.bin itself; a failing chmod does not
\* prevent that, and not-found is not reported.
C7_RenameFailureFallsBack ==
    \A d \in AllDirs :
        (resolved /\ <<"rename", d, "failed">> \in fsops) =>
            /\ binaryPath = disguisedPath(d)
            /\ binaryPath # NullPath

\* The file operations findBinary made in directory d.
ops_in(d) == {o \in fsops : o[2] = d}

\* C8: when a candidate directory holds both the proper-named binary and
\* crush.bin, findBinary returns the proper-named path (of that directory,
\* or the path an earlier candidate gave) and crush.bin is left as it was:
\* not renamed, not chmod-ed, not deleted.
C8_ProperNameTakesPrecedence ==
    \A d \in AllDirs :
        (resolved /\ index_of(d) > 0
            /\ fs0[d].final # None /\ fs0[d].disguised # None) =>
            /\ fs[d] = fs0[d]
            /\ ops_in(d) = {}
            /\ \/ binaryPath = finalPath(d)
               \/ /\ index_of(binaryPath.dir) > 0
                  /\ index_of(binaryPath.dir) < index_of(d)

\* The second candidate holds both files, the first none, and the second's
\* proper-named path was returned.
C8_Witness ==
    /\ resolved
    /\ fs0[ScopedDir] = [final |-> None, disguised |-> None]
    /\ fs0[HoistedDir] = [final |-> "0755", disguised |-> "0644"]
    /\ binaryPath = finalPath(HoistedDir)
    /\ fs[HoistedDir].disguised = "0644"


\* ---------------------------------------------------------- C11
\* Something of platform suffix s has been written in this run.
touched(s) == fetch[s] # None

\* The clean step stands before the platform phase and the rewrite after it.
clean_then_platforms_then_rewrite ==
    /\ (\E s \in archive_suffixes : touched(s)) => cleaned
    /\ root_pkg # root_before => pc = "done" /\ todo = {} /\ cleaned
    /\ pc = "done" => todo = {} /\ cleaned

\* After the clean step, dist holds only what this run wrote.
nothing_older_survives ==
    cleaned =>
        /\ \A a \in dist_archives :
              \E s \in archive_suffixes :
                  /\ a.name = archive_name(VERSION, s)
                  /\ fetch[s] = a.content
        /\ \A s \in archive_suffixes : pkg_of(s) # {} => touched(s)

\* What the platform phase wrote is still there: every platform of the
\* summary has its package directory, every download that came has its file.
nothing_written_is_cleaned ==
    /\ \A s \in archive_suffixes :
          PLATFORMS[s] \in BUILT_PLATFORMS => pkg_of(s) # {}
    /\ \A s \in archive_suffixes :
          fetch[s] \in Layouts =>
              archive_exists(dist_archives, archive_name(VERSION, s))

\* C11: in every run the output directory is destroyed and recreated before
\* any platform is downloaded or extracted, and the root manifest is
\* rewritten after the last platform: the clean step removes nothing the
\* platform phase wrote, and nothing of an earlier run survives it.
C11_CleanFirstRewriteLast ==
    /\ clean_then_platforms_then_rewrite
    /\ nothing_older_survives
    /\ nothing_written_is_cleaned

\* A run that found an earlier run's archive and package, cleaned them away,
\* and has built another platform since.
C11_Witness ==
    /\ pc = "loop"
    /\ on_disk = {"Linux_x86_64"}
    /\ cleaned
    /\ dist_archives # {}
    /\ "darwin-arm64" \in BUILT_PLATFORMS
    /\ pkg_of("Linux_x86_64") = {}

\* ---------------------------------------------------------- C12
\* C12: an archive of the version being built that is on disk from an
\* earlier run is not fetched again: when the loop reaches its platform, the
\* download is skipped and the file on disk is used.
C12_ArchiveCachedAcrossRuns ==
    [][\A s \in on_disk :
          (pc = "loop" /\ s \notin on_disk') => fetch'[s] = "cached"]_vars

\* ---------------------------------------------------------- C13
\* The package of suffix s holds its binary at bin/<binary name> and no
\* other extracted entry.
binary_alone_in_bin(s) ==
    LET b == "bin/" \o binary_name(OS_MAP[PLATFORMS[s]])
    IN  /\ b \in pkg_of(s)
        /\ pkg_of(s) \subseteq {"bin/", b, "package.json", "README.md"}

\* C13: an archive whose binary lies two levels deep ends, after the three
\* strategies tried in order, with the binary at bin/<binary name> of the
\* package and no other extracted entry in the package directory.
C13_DeepBinaryRelocated ==
    \A s \in archive_suffixes : fetch[s] = "deep" => binary_alone_in_bin(s)

\* ---------------------------------------------------------- C14
\* The step that starts an invocation without a version.
started_without_version == runs' # runs /\ VERSION' = ""

\* C14: invoked without a version (absent or empty argument) the builder
\* prints the usage and exits with status 1 having changed nothing: dist is
\* not deleted, nothing is downloaded, the root manifest is not rewritten.
C14_UsageChangesNothing ==
    /\ [][started_without_version =>
            /\ pc' = "usage"
            /\ exit_status' = <<1>>
            /\ dist_archives' = dist_archives
            /\ packages' = packages
            /\ root_pkg' = root_pkg]_vars
    /\ [](pc = "usage" =>
            /\ exit_status = <<1>>
            /\ ~cleaned
            /\ fetch = no_fetch
            /\ root_pkg = root_before
            /\ ~ENABLED (Clean \/ Rewrite))

\* The usage exit with an earlier run's archive and package still in dist.
C14_Witness ==
    /\ pc = "usage"
    /\ exit_status = <<1>>
    /\ dist_archives = {stale_archive}
    /\ packages = stale_packages

\* ---------------------------------------------------------- C15
\* C15: the version-update step is idempotent: the manifest a run leaves is
\* the one step applied to the manifest it found, and applying the step to it
\* once more with the same version gives the same file, layout included.
C15_RootUpdateIdempotent ==
    pc = "done" =>
        /\ root_pkg = update_root(root_before, VERSION)
        /\ update_root(root_pkg, VERSION) = root_pkg

\* A finished run that changed both the entries and the layout of a
\* manifest with dependency entries.
C15_Witness ==
    /\ pc = "done"
    /\ VERSION = "0.43.0"
    /\ root_before.text = "as_found"
    /\ root_pkg.text = "stringified"
    /\ \E d \in DOMAIN root_pkg.optionalDependencies :
          root_before.optionalDependencies[d] # root_pkg.optionalDependencies[d]

\* ---------------------------------------------------------- C16
\* Candidate d held a binary, proper-named or disguised, at the start.
holds_binary(d) == fs0[d] # [final |-> None, disguised |-> None]

\* The candidates after d in the probing order.
later_than(d) ==
    {baseDirs[j] : j \in (index_of(d) + 1)..Len(baseDirs)}

\* C16: findBinary probes the candidates in their fixed order and returns
\* the binary of the first candidate that holds one: no later candidate's
\* path is returned, and no file of a later candidate is renamed or chmod-ed.
C16_FirstHolderWins ==
    \A d \in AllDirs :
        (resolved /\ reached(d) /\ holds_binary(d)) =>
            /\ binaryPath \in {finalPath(d), disguisedPath(d)}
            /\ \A e \in later_than(d) : ops_in(e) = {} /\ fs[e] = fs0[e]

\* ---------------------------------------------------------- C19
\* C19: findBinary reports not-found only if, when it returns, no candidate
\* directory holds the proper-named binary or the disguised file.
C19_NotFoundMeansNoBinary ==
    binaryPath = NullPath =>
        \A i \in 1..Len(baseDirs) :
            fs[baseDirs[i]] = [final |-> None, disguised |-> None]

\* ---------------------------------------------------------- C17
\* C17: when findBinary yields not-found, main ends with a non-zero status
\* without ever spawning a child and without registering a signal listener.
C17_NotFoundExitsWithoutSpawn ==
    binaryPath = NullPath =>
        /\ lpc = "exited"
        /\ launcher_exit # <<>> /\ launcher_exit[1] # 0
        /\ launcher_sig = None
        /\ child = "none"
        /\ listeners = {}
        /\ received = <<>> /\ delivered = <<>>

\* Not-found with files in the candidates left alone: none of them held one.
C17_Witness ==
    /\ binaryPath = NullPath
    /\ lpc = "exited"
    /\ launcher_exit = <<1>>
    /\ fsops = {}

\* ---------------------------------------------------------- C20
\* The launcher has ended.
launcher_ended == lpc \in {"exited", "signaled"}

file_named(n) == IF n = "CONFIG_FILE" THEN CONFIG_FILE ELSE local_file

\* Telemetry and provider auto-update are disabled in file f.
telemetry_and_updates_off(f) ==
    /\ f.kind = "json"
    /\ \A k \in {"disable_metrics", "disable_provider_auto_update"} :
          k \in DOMAIN f.obj.options /\ f.obj.options[k] = TRUE

\* C18: every configuration file the setup tool writes, by the wizard or by
\* quick setup and whatever configuration existed before, has
\* options.disable_metrics and options.disable_provider_auto_update true.
C18_WrittenConfigDisablesTelemetry ==
    \A n \in written : telemetry_and_updates_off(file_named(n))

\* ---------------------------------------------------------- C21
\* The provider entries the wizard's saved configuration is to hold: after
\* a declined overwrite of a file that parses, the file's entries with the
\* selected key's entry replaced; otherwise the selected provider alone.
providers_to_save ==
    IF declined /\ file_before.kind = "json"
    THEN [k \in DOMAIN file_before.obj.providers \cup {selectedProvider} |->
            IF k = selectedProvider THEN "configured"
            ELSE file_before.obj.providers[k]]
    ELSE [k \in {selectedProvider} |-> "configured"]

\* C21: in the wizard, when a parseable configuration exists and overwriting
\* is declined, the saved configuration keeps every existing provider entry
\* except the one under the selected key, which is replaced; when the
\* overwrite is accepted or the file does not parse, it holds only the
\* selected provider.
C21_WizardKeepsOtherProviders ==
    mode = "wizard" =>
        \A n \in written :
            /\ file_named(n).kind = "json"
            /\ file_named(n).obj.providers = providers_to_save

\* A declined overwrite of a file with two provider entries, one under the
\* selected key, saved to both files.
C21_Witness ==
    /\ mode = "wizard"
    /\ declined
    /\ file_before.kind = "json"
    /\ DOMAIN file_before.obj.providers = {"azure-foundry", "internal-llm"}
    /\ selectedProvider = "azure-foundry"
    /\ written = {"CONFIG_FILE", "crush.json"}
    /\ CONFIG_FILE.obj.providers["azure-foundry"] = "configured"
    /\ CONFIG_FILE.obj.providers["internal-llm"] = "existing"

====
